---- MODULE Spec2Model ----
(***************************************************************************)
(* A model of QueryRunner (src/src/QueryRunner/QueryRunner.ts): the four   *)
(* statement-building operations createMany, editMany, deleteMany and      *)
(* createRelationship, the logger hook, the hand-off to session.run and    *)
(* the BindParam registry they rely on.                                    *)
(*                                                                         *)
(* Statement text is kept as a sequence of pieces.  A piece is either      *)
(* literal text (Txt) or a bracket-style parameter placeholder (Param),    *)
(* so that "the placeholders of a statement" is something the model can    *)
(* compute.  Two statements with equal piece sequences are the same text.  *)
(* The line breaks and indentation of the source's template literals are   *)
(* written as single spaces.                                               *)
(*                                                                         *)
(* Each operation is an async function without an await: it runs from its  *)
(* first line to session.run in one step, and its promise settles when     *)
(* the promise session.run returned settles.  Invocations are concurrent   *)
(* when one is made while another's promise is still pending.              *)
(*                                                                         *)
(* BindParam lives in ./Where, which is not among the sources; its         *)
(* operations are modelled from the specification (section 4.1).           *)
(***************************************************************************)
EXTENDS Integers, Sequences, FiniteSets, TLC

VARIABLES
    logger,     \* QueryRunner.logger: "null" or "fn"
    heap,       \* the BindParam objects allocated so far: heap[ref] is the
                \* name -> value mapping held by the object with reference ref
    calls,      \* the invocations made so far, with their inputs and promise
    events,     \* the logger and session.run invocations, in program order
    session     \* the promises returned by session.run, one per invocation

vars == <<logger, heap, calls, events, session>>

----------------------------------------------------------------------------
(* Bounds of the model *)

\* invocations in one behaviour of Spec (concurrent, curated inputs)
MaxCalls == 2
\* invocations in one behaviour of SpecWide (all input combinations)
MaxWideCalls == 1

----------------------------------------------------------------------------
(* JavaScript values *)

Num(n) == <<"num", n>>
Obj(pairs) == <<"obj", pairs>>
List(items) == <<"list", items>>

\* an object literal is a sequence of <<key, value>> pairs in insertion order
Keys(pairs) == {pairs[i][1] : i \in DOMAIN pairs}

\* a name -> value mapping is a function; the empty mapping is <<>>
Put(m, k, v) == [x \in (DOMAIN m) \cup {k} |-> IF x = k THEN v ELSE m[x]]

\* the character the source wraps labels in is the grave accent; a TLA+
\* string cannot hold it, so the apostrophe stands for it in the model
BACKTICK == "'"

Txt(s) == [k |-> "text", s |-> s]
Param(name) == [k |-> "param", s |-> name]

\* the placeholder names that occur in a statement
Placeholders(statement) ==
    {statement[i].s : i \in {j \in DOMAIN statement : statement[j].k = "param"}}

\* promise states
Pending == [state |-> "pending", value |-> "none"]
Resolved(v) == [state |-> "resolved", value |-> v]
Rejected(e) == [state |-> "rejected", value |-> e]

\* reading a property of undefined
TypeError == "TypeError"

----------------------------------------------------------------------------
(* BindParam registry (section 4.1 of the specification) *)

\* the name a value is stored under: the preferred name when it is free,
\* otherwise the preferred name followed by the smallest unused integer
getUniqueName(bind, preferredName) ==
    IF preferredName \notin DOMAIN bind
    THEN preferredName
    ELSE LET free == {n \in 1..(Cardinality(DOMAIN bind) + 1) :
                         (preferredName \o ToString(n)) \notin DOMAIN bind}
         IN  preferredName \o ToString(CHOOSE n \in free : \A m \in free : n <= m)

\* new BindParam(mapping): a new registry seeded from the mapping's entries
BindParamNew(h, mapping) == [heap |-> Append(h, mapping), ref |-> Len(h) + 1]

\* BindParam.acquire(x): x itself when it is a registry, a fresh empty
\* registry when x is missing (reference 0 stands for undefined)
acquire(h, ref) ==
    IF ref = 0 THEN BindParamNew(h, <<>>) ELSE [heap |-> h, ref |-> ref]

\* clone(): a new registry with a copy of the entries
clone(h, ref) == BindParamNew(h, h[ref])

\* getUniqueNameAndAdd(preferredName, value): stores and returns the name used
getUniqueNameAndAdd(h, ref, preferredName, value) ==
    LET name == getUniqueName(h[ref], preferredName)
    IN  [heap |-> [h EXCEPT ![ref] = Put(@, name, value)], name |-> name]

\* add(values): merges the fields of a plain object, each under a unique name
RECURSIVE add(_, _, _)
add(h, ref, pairs) ==
    IF Len(pairs) = 0
    THEN h
    ELSE add(getUniqueNameAndAdd(h, ref, pairs[1][1], pairs[1][2]).heap,
             ref, Tail(pairs))

\* get(): the current mapping
get(h, ref) == h[ref]

----------------------------------------------------------------------------
(* The inputs callers pass *)

Str(s) == <<"str", s>>

\* the Where objects the callers hold and may pass to any number of calls;
\* their BindParams are the first objects of the heap
WhereBindA == ("id" :> Num(1))
WhereBindB == ("id" :> Num(1)) @@ ("id1" :> Num(2))
WhereBindEmpty == <<>>
InitHeap == <<WhereBindA, WhereBindB, WhereBindEmpty>>

undefined == [defined |-> FALSE, statement |-> <<>>, bindParam |-> 0]
WhereA ==
    [defined |-> TRUE, bindParam |-> 1,
     statement |-> <<Txt("a.id = "), Param("id")>>]
WhereB ==
    [defined |-> TRUE, bindParam |-> 2,
     statement |-> <<Txt("a.id = "), Param("id"), Txt(" AND b.id = "), Param("id1")>>]
WhereEmpty == [defined |-> TRUE, bindParam |-> 3, statement |-> <<>>]

Wheres == {undefined, WhereA, WhereB}
WideWheres == {undefined, WhereA, WhereB, WhereEmpty}

\* relationship.values: absent, or an object with own and inherited properties
NoValues == [defined |-> FALSE, own |-> <<>>, inherited |-> <<>>]
Values(own, inherited) == [defined |-> TRUE, own |-> own, inherited |-> inherited]
ValuesEmpty == Values(<<>>, <<>>)
ValuesSince == Values(<< <<"since", Num(2020)>> >>, <<>>)
ValuesIds == Values(<< <<"id", Num(7)>>, <<"id1", Num(8)>> >>, <<>>)
ValuesInherited == Values(<< <<"since", Num(2020)>> >>, << <<"id", Num(9)>> >>)
ValuesOnlyInherited == Values(<<>>, << <<"id", Num(9)>> >>)

RelValues == {NoValues, ValuesIds}
WideRelValues ==
    {NoValues, ValuesEmpty, ValuesSince, ValuesIds, ValuesInherited, ValuesOnlyInherited}

Directions == {"out", "in", "none"}

NodeLabels == {"Person"}
WideNodeLabels == {"Person", "Movie Star"}
RelLabels == {"ACTED IN"}
WideRelLabels == {"KNOWS", "ACTED IN"}

\* editMany's options: a partial value object
PayloadAge == << <<"age", Num(30)>> >>
PayloadId == << <<"id", Num(5)>> >>
PayloadOptions == << <<"options", Num(9)>> >>
Payloads == {PayloadAge, PayloadId}
WidePayloads == {PayloadAge, PayloadId, PayloadOptions, <<>>}

\* createMany's options: a list of value objects
ListAB == List(<<Obj(<< <<"name", Str("a")>> >>), Obj(<< <<"name", Str("b")>> >>)>>)
CreateLists == {ListAB, List(<<>>)}

\* what session.run may produce
Results == {"result"}
Errors == {"constraintViolation"}

----------------------------------------------------------------------------
(* QueryRunner *)

\* constructor: this.logger = params?.logger || null
constructor(params) ==
    IF params.defined /\ params.logger # "undefined" THEN params.logger ELSE "null"

ConstructorParams ==
    {[defined |-> FALSE, logger |-> "undefined"],
     [defined |-> TRUE, logger |-> "undefined"],
     [defined |-> TRUE, logger |-> "fn"]}

\* getLabel: surrounds the label with backticks
getLabel(label) == BACKTICK \o label \o BACKTICK

\* log: this.logger?.(...val), appended to the events ev
log(ev, id, statement, parameters) ==
    IF logger = "null"
    THEN ev
    ELSE Append(ev, [kind |-> "log", call |-> id,
                     statement |-> statement, parameters |-> parameters])

\* session.run(statement, parameters), appended to the events ev
sessionRun(ev, id, statement, parameters) ==
    Append(ev, [kind |-> "run", call |-> id,
                statement |-> statement, parameters |-> parameters])

\* createMany, lines 47-56: statement and parameters
createManyBuild(nodesLabel, options) ==
    LET label == getLabel(nodesLabel)
    IN  [statement |->
            <<Txt("UNWIND "), Param("options"), Txt(" as "), Txt(label),
              Txt(" CREATE (node: "), Txt(label), Txt(")"),
              Txt(" SET node = "), Txt(label),
              Txt(" RETURN "), Txt(label), Txt(";")>>,
         parameters |-> ("options" :> options)]

\* a slip: the Where's registry extended in place, clone() left out
editManyBuild_noClone(h, nodesLabel, options, where) ==
    LET label == getLabel(nodesLabel)
        match == <<Txt("MATCH ("), Txt(label), Txt(": "), Txt(label), Txt(")")>>
        filter == IF where.defined THEN <<Txt("WHERE ")>> \o where.statement ELSE <<>>
        set == <<Txt(" SET "), Txt(label), Txt(" += "), Param("options"),
                 Txt(" return "), Txt(label)>>
        acquired == acquire(h, IF where.defined THEN where.bindParam ELSE 0)
        added == add(acquired.heap, acquired.ref, options)
    IN  [heap |-> added,
         statement |-> match \o filter \o set,
         parameters |-> get(added, acquired.ref)]

\* editMany, lines 72-87: statement and parameters, and the heap afterwards
editManyBuild(h, nodesLabel, options, where) ==
    LET label == getLabel(nodesLabel)
        match == <<Txt("MATCH ("), Txt(label), Txt(": "), Txt(label), Txt(")")>>
        filter == IF where.defined THEN <<Txt("WHERE ")>> \o where.statement ELSE <<>>
        set == <<Txt(" SET "), Txt(label), Txt(" += "), Param("options"),
                 Txt(" return "), Txt(label)>>
        acquired == acquire(h, IF where.defined THEN where.bindParam ELSE 0)
        cloned == clone(acquired.heap, acquired.ref)
        added == add(cloned.heap, cloned.ref, options)
    IN  [heap |-> added,
         statement |-> match \o filter \o set,
         parameters |-> get(added, cloned.ref)]

\* a slip: the WHERE clause appended without the test of line 108
deleteManyBuild_alwaysWhere(h, nodesLabel, where) ==
    LET label == getLabel(nodesLabel)
        match == <<Txt("MATCH ("), Txt(label), Txt(": "), Txt(label), Txt(")")>>
        filter == <<Txt("WHERE ")>> \o where.statement
        delete == <<Txt(" OPTIONAL MATCH ("), Txt(label), Txt(")-[r]-()"),
                    Txt(" DELETE "), Txt(label), Txt(",r")>>
    IN  [statement |-> match \o filter \o delete,
         parameters |-> IF where.defined THEN get(h, where.bindParam) ELSE <<>>]

\* deleteMany, lines 103-116: statement and parameters
deleteManyBuild(h, nodesLabel, where) ==
    LET label == getLabel(nodesLabel)
        match == <<Txt("MATCH ("), Txt(label), Txt(": "), Txt(label), Txt(")")>>
        filter == IF where.defined THEN <<Txt("WHERE ")>> \o where.statement ELSE <<>>
        delete == <<Txt(" OPTIONAL MATCH ("), Txt(label), Txt(")-[r]-()"),
                    Txt(" DELETE "), Txt(label), Txt(",r")>>
    IN  [statement |-> match \o filter \o delete,
         parameters |-> IF where.defined THEN get(h, where.bindParam) ELSE <<>>]

\* for (const key in values): own properties first, then inherited ones
\* that no own property shadows
Enumerable(values) ==
    values.own \o SelectSeq(values.inherited, LAMBDA p : p[1] \notin Keys(values.own))

hasOwnProperty(values, key) == key \in Keys(values.own)

\* values[key]: the own property, or else the inherited one
Prop(values, key) ==
    LET all == values.own \o values.inherited
        i == CHOOSE n \in DOMAIN all :
                 all[n][1] = key /\ \A m \in 1..(n - 1) : all[m][1] # key
    IN  all[i][2]

\* a slip: the value stored under the key itself, overwriting what the Where bound
RECURSIVE forIn_overwrite(_, _, _, _, _)
forIn_overwrite(h, ref, values, pairs, relationshipValues) ==
    IF Len(pairs) = 0
    THEN [heap |-> h, relationshipValues |-> relationshipValues]
    ELSE LET key == pairs[1][1]
         IN  IF ~hasOwnProperty(values, key)
             THEN forIn_overwrite(h, ref, values, Tail(pairs), relationshipValues)
             ELSE forIn_overwrite([h EXCEPT ![ref] = Put(@, key, Prop(values, key))],
                                  ref, values, Tail(pairs),
                                  Append(relationshipValues,
                                         <<Txt("r." \o key \o " = "), Param(key)>>))

\* a slip: names made unique with a counter that outlives the call (here the
\* number of registries allocated so far)
RECURSIVE forIn_counter(_, _, _, _, _)
forIn_counter(h, ref, values, pairs, relationshipValues) ==
    IF Len(pairs) = 0
    THEN [heap |-> h, relationshipValues |-> relationshipValues]
    ELSE LET key == pairs[1][1]
         IN  IF ~hasOwnProperty(values, key)
             THEN forIn_counter(h, ref, values, Tail(pairs), relationshipValues)
             ELSE LET added == getUniqueNameAndAdd(h, ref, key \o "_" \o ToString(Len(h)),
                                                   Prop(values, key))
                      paramName == added.name
                  IN  forIn_counter(added.heap, ref, values, Tail(pairs),
                                    Append(relationshipValues,
                                           <<Txt("r." \o key \o " = "), Param(paramName)>>))

\* createRelationship, lines 139-144: the loop over relationship.values
RECURSIVE forIn(_, _, _, _, _)
forIn(h, ref, values, pairs, relationshipValues) ==
    IF Len(pairs) = 0
    THEN [heap |-> h, relationshipValues |-> relationshipValues]
    ELSE LET key == pairs[1][1]
         IN  IF ~hasOwnProperty(values, key)
             THEN forIn(h, ref, values, Tail(pairs), relationshipValues)
             ELSE LET added == getUniqueNameAndAdd(h, ref, key, Prop(values, key))
                      paramName == added.name
                  IN  forIn(added.heap, ref, values, Tail(pairs),
                            Append(relationshipValues,
                                   <<Txt("r." \o key \o " = "), Param(paramName)>>))

\* relationshipValues.join(', ')
RECURSIVE join(_, _)
join(parts, sep) ==
    IF Len(parts) = 0 THEN <<>>
    ELSE IF Len(parts) = 1 THEN parts[1]
    ELSE parts[1] \o <<sep>> \o join(Tail(parts), sep)

\* a slip: the arrows of the two directions exchanged
directionString_swapped(relationship) ==
    (IF relationship.direction = "out" THEN "<-" ELSE "-")
        \o "[r:" \o getLabel(relationship.label) \o "]"
        \o (IF relationship.direction = "in" THEN "->" ELSE "-")

\* createRelationship, line 132
directionString(relationship) ==
    (IF relationship.direction = "in" THEN "<-" ELSE "-")
        \o "[r:" \o getLabel(relationship.label) \o "]"
        \o (IF relationship.direction = "out" THEN "->" ELSE "-")

\* createRelationship, lines 132-157, once where.bindParam could be read
createRelationshipBody(h, params) ==
    LET a == params.a
        b == params.b
        relationship == params.relationship
        where == params.where
    IN  LET acquired == acquire(h, where.bindParam)
            cloned == clone(acquired.heap, acquired.ref)
            relationshipAttributesParams ==
                BindParamNew(cloned.heap, get(cloned.heap, cloned.ref))
            loop ==
                IF relationship.values.defined
                THEN forIn(relationshipAttributesParams.heap,
                           relationshipAttributesParams.ref,
                           relationship.values,
                           Enumerable(relationship.values), <<>>)
                ELSE [heap |-> relationshipAttributesParams.heap,
                      relationshipValues |-> <<>>]
            relationshipValuesStatement ==
                IF Len(loop.relationshipValues) > 0
                THEN <<Txt("SET ")>> \o join(loop.relationshipValues, Txt(", "))
                ELSE <<>>
        IN  [threw |-> FALSE,
             heap |-> loop.heap,
             statement |->
                <<Txt("MATCH (a:"), Txt(getLabel(a.label)),
                  Txt("), (b:"), Txt(getLabel(b.label)), Txt(")"),
                  Txt(" WHERE ")>> \o where.statement
                \o <<Txt(" CREATE (a)"), Txt(directionString(relationship)), Txt("(b) ")>>
                \o relationshipValuesStatement,
             parameters |-> get(loop.heap, relationshipAttributesParams.ref)]

\* a slip: where?.bindParam and where?.statement, so that nothing throws
createRelationshipBuild_noThrow(h, params) == createRelationshipBody(h, params)

\* createRelationship, lines 126-157: statement and parameters, and the heap
\* afterwards; reading where.bindParam (line 135) throws when where is undefined
createRelationshipBuild(h, params) ==
    IF ~params.where.defined
    THEN [threw |-> TRUE, heap |-> h, statement |-> <<>>, parameters |-> <<>>]
    ELSE createRelationshipBody(h, params)

\* the entry of calls for an invocation that reached session.run
Invocation(op, args, whereBind) ==
    [op |-> op, args |-> args, whereBind |-> whereBind,
     run |-> Len(session) + 1, promise |-> Pending]

\* the contents of a Where's BindParam when the call is made
WhereBindOf(where) == IF where.defined THEN heap[where.bindParam] ELSE <<>>

\* a slip: the statement logged only after it was handed to session.run
createMany_logAfterRun(nodesLabel, options) ==
    LET id == Len(calls) + 1
        built == createManyBuild(nodesLabel, options)
        ran == sessionRun(events, id, built.statement, built.parameters)
    IN  /\ events' = log(ran, id, built.statement, built.parameters)
        /\ session' = Append(session, Pending)
        /\ calls' = Append(calls,
              Invocation("createMany",
                         [nodesLabel |-> nodesLabel, options |-> options], <<>>))
        /\ UNCHANGED <<logger, heap>>

\* createMany, lines 45-62
createMany(nodesLabel, options) ==
    LET id == Len(calls) + 1
        built == createManyBuild(nodesLabel, options)
        logged == log(events, id, built.statement, built.parameters)
    IN  /\ events' = sessionRun(logged, id, built.statement, built.parameters)
        /\ session' = Append(session, Pending)
        /\ calls' = Append(calls,
              Invocation("createMany",
                         [nodesLabel |-> nodesLabel, options |-> options], <<>>))
        /\ UNCHANGED <<logger, heap>>

\* editMany, lines 71-93
editMany(nodesLabel, options, where) ==
    LET id == Len(calls) + 1
        built == editManyBuild(heap, nodesLabel, options, where)
        logged == log(events, id, built.statement, built.parameters)
    IN  /\ heap' = built.heap
        /\ events' = sessionRun(logged, id, built.statement, built.parameters)
        /\ session' = Append(session, Pending)
        /\ calls' = Append(calls,
              Invocation("editMany",
                         [nodesLabel |-> nodesLabel, options |-> options,
                          where |-> where],
                         WhereBindOf(where)))
        /\ UNCHANGED logger

\* a slip: the statement run a second time
deleteMany_retry(nodesLabel, where) ==
    LET id == Len(calls) + 1
        built == deleteManyBuild(heap, nodesLabel, where)
        logged == log(events, id, built.statement, built.parameters)
        ran == sessionRun(logged, id, built.statement, built.parameters)
    IN  /\ events' = sessionRun(ran, id, built.statement, built.parameters)
        /\ session' = session \o <<Rejected("discarded"), Pending>>
        /\ calls' = Append(calls,
              [op |-> "deleteMany",
               args |-> [nodesLabel |-> nodesLabel, where |-> where],
               whereBind |-> WhereBindOf(where),
               run |-> Len(session) + 2, promise |-> Pending])
        /\ UNCHANGED <<logger, heap>>

\* deleteMany, lines 101-122
deleteMany(nodesLabel, where) ==
    LET id == Len(calls) + 1
        built == deleteManyBuild(heap, nodesLabel, where)
        logged == log(events, id, built.statement, built.parameters)
    IN  /\ events' = sessionRun(logged, id, built.statement, built.parameters)
        /\ session' = Append(session, Pending)
        /\ calls' = Append(calls,
              Invocation("deleteMany",
                         [nodesLabel |-> nodesLabel, where |-> where],
                         WhereBindOf(where)))
        /\ UNCHANGED <<logger, heap>>

\* createRelationship, lines 124-162
createRelationship(params) ==
    LET id == Len(calls) + 1
        built == createRelationshipBuild(heap, params)
        logged == log(events, id, built.statement, built.parameters)
    IN  IF built.threw
        THEN \* the async function rejects; nothing was logged or run
             /\ calls' = Append(calls,
                   [op |-> "createRelationship", args |-> params,
                    whereBind |-> <<>>, run |-> 0,
                    promise |-> Rejected(TypeError)])
             /\ UNCHANGED <<logger, heap, events, session>>
        ELSE /\ heap' = built.heap
             /\ events' = sessionRun(logged, id, built.statement, built.parameters)
             /\ session' = Append(session, Pending)
             /\ calls' = Append(calls,
                   Invocation("createRelationship", params,
                              WhereBindOf(params.where)))
             /\ UNCHANGED logger

\* the promise of session.run number r settles; every async function that
\* returned it settles the same way
Settle(r, outcome) ==
    /\ r \in DOMAIN session
    /\ session[r].state = "pending"
    /\ session' = [session EXCEPT ![r] = outcome]
    /\ calls' = [i \in DOMAIN calls |->
                    IF calls[i].run = r
                    THEN [calls[i] EXCEPT !.promise = outcome]
                    ELSE calls[i]]
    /\ UNCHANGED <<logger, heap, events>>

----------------------------------------------------------------------------
(* Specifications *)

Init ==
    /\ logger \in {constructor(params) : params \in ConstructorParams}
    /\ heap = InitHeap
    /\ calls = <<>>
    /\ events = <<>>
    /\ session = <<>>

RelationshipParams(aLabels, bLabels, relLabels, directions, values, wheres) ==
    [a : [label : aLabels], b : [label : bLabels],
     relationship : [label : relLabels, direction : directions, values : values],
     where : wheres]

CallCreateMany ==
    /\ Len(calls) < MaxCalls
    /\ \E nodesLabel \in NodeLabels, options \in CreateLists :
           createMany(nodesLabel, options)

CallEditMany ==
    /\ Len(calls) < MaxCalls
    /\ \E nodesLabel \in NodeLabels, options \in Payloads, where \in Wheres :
           editMany(nodesLabel, options, where)

CallDeleteMany ==
    /\ Len(calls) < MaxCalls
    /\ \E nodesLabel \in NodeLabels, where \in Wheres :
           deleteMany(nodesLabel, where)

CallCreateRelationship ==
    /\ Len(calls) < MaxCalls
    /\ \E params \in RelationshipParams(NodeLabels, NodeLabels, RelLabels, {"out", "in"},
                                        RelValues, Wheres) :
           createRelationship(params)

SessionResolves == \E r \in DOMAIN session, v \in Results : Settle(r, Resolved(v))

SessionRejects == \E r \in DOMAIN session, e \in Errors : Settle(r, Rejected(e))

Next ==
    \/ CallCreateMany
    \/ CallEditMany
    \/ CallDeleteMany
    \/ CallCreateRelationship
    \/ SessionResolves
    \/ SessionRejects

Spec == Init /\ [][Next]_vars

\* every combination of inputs, fewer invocations
WideCreateMany ==
    /\ Len(calls) < MaxWideCalls
    /\ \E nodesLabel \in WideNodeLabels, options \in CreateLists :
           createMany(nodesLabel, options)

WideEditMany ==
    /\ Len(calls) < MaxWideCalls
    /\ \E nodesLabel \in WideNodeLabels, options \in WidePayloads,
          where \in WideWheres :
           editMany(nodesLabel, options, where)

WideDeleteMany ==
    /\ Len(calls) < MaxWideCalls
    /\ \E nodesLabel \in WideNodeLabels, where \in WideWheres :
           deleteMany(nodesLabel, where)

WideCreateRelationship ==
    /\ Len(calls) < MaxWideCalls
    /\ \E params \in RelationshipParams({"Person"}, {"Movie Star"}, WideRelLabels, Directions,
                                        WideRelValues, WideWheres) :
           createRelationship(params)

NextWide ==
    \/ WideCreateMany
    \/ WideEditMany
    \/ WideDeleteMany
    \/ WideCreateRelationship
    \/ SessionResolves
    \/ SessionRejects

SpecWide == Init /\ [][NextWide]_vars

----------------------------------------------------------------------------
(* Reading the history *)

RunEvents(i) == {n \in DOMAIN events : events[n].kind = "run" /\ events[n].call = i}
LogEvents(i) == {n \in DOMAIN events : events[n].kind = "log" /\ events[n].call = i}
Ran(i) == RunEvents(i) # {}
RunOf(i) == events[CHOOSE n \in RunEvents(i) : TRUE]
Pieces(statement) == {statement[n] : n \in DOMAIN statement}

\* the invocation is createRelationship without its where
AbsentWhere(i) ==
    calls[i].op = "createRelationship" /\ ~calls[i].args.where.defined

----------------------------------------------------------------------------
(* Claims *)

\* C1 (as stated; refuted by editMany): every placeholder of a statement
\* handed to session.run is a key of the parameters handed over with it.
C1_PlaceholdersAreParameters ==
    \A n \in DOMAIN events :
        events[n].kind = "run" =>
            Placeholders(events[n].statement) \subseteq DOMAIN events[n].parameters

\* C2 (as stated; refuted): editMany's parameters hold every entry of the
\* Where's BindParam unchanged and the whole payload under the key options,
\* a key the Where does not bind; without a Where they are exactly
\* { options: payload }.
C2_EditManyOptionsKey ==
    \A i \in DOMAIN calls :
        calls[i].op = "editMany" =>
            LET W == calls[i].whereBind
                P == RunOf(i).parameters
                payload == Obj(calls[i].args.options)
            IN  /\ Ran(i)
                /\ \A k \in DOMAIN W : k \in DOMAIN P /\ P[k] = W[k]
                /\ "options" \notin DOMAIN W
                /\ "options" \in DOMAIN P
                /\ P["options"] = payload
                /\ ~calls[i].args.where.defined => P = ("options" :> payload)

\* C3 (as stated; refuted): createRelationship without its where does not
\* reject; it hands session.run a statement whose filter expression is empty.
C3_AbsentWhereStillRuns ==
    \A i \in DOMAIN calls :
        AbsentWhere(i) =>
            /\ calls[i].promise # Rejected(TypeError)
            /\ Cardinality(RunEvents(i)) = 1
            /\ LET S == RunOf(i).statement
               IN  \E n \in DOMAIN S :
                       /\ S[n] = Txt(" WHERE ")
                       /\ n + 1 \in DOMAIN S
                       /\ S[n + 1] = Txt(" CREATE (a)")

\* C3 (amended): createRelationship without its where rejects with a
\* TypeError before a statement exists: nothing is logged, session.run is
\* not invoked.
C3_AbsentWhereRejects ==
    \A i \in DOMAIN calls :
        AbsentWhere(i) =>
            /\ calls[i].promise = Rejected(TypeError)
            /\ calls[i].run = 0
            /\ RunEvents(i) = {}
            /\ LogEvents(i) = {}

C3_Witness ==
    \E i \in DOMAIN calls :
        AbsentWhere(i) /\ calls[i].args.relationship.values.defined

\* C4: createRelationship's parameters hold every entry of the Where's
\* BindParam unchanged and, for each own key k of the relationship values,
\* one entry n -> V[k] under a name n that the Where does not bind and no
\* other key got; the SET clause reads r.k = {n} with that name; without own
\* keys there is no SET clause and the parameters are the Where's entries.
C4_RelationshipParameters ==
    \A i \in DOMAIN calls :
        (calls[i].op = "createRelationship" /\ ~AbsentWhere(i)) =>
            LET W == calls[i].whereBind
                V == calls[i].args.relationship.values
                own == IF V.defined THEN V.own ELSE <<>>
                S == RunOf(i).statement
                P == RunOf(i).parameters
                At(k) == {n \in DOMAIN S : S[n] = Txt("r." \o k \o " = ")}
                NameOf(k) == S[(CHOOSE n \in At(k) : TRUE) + 1].s
                sets == {n \in DOMAIN S : S[n] = Txt("SET ")}
            IN  /\ Ran(i)
                /\ \A k \in DOMAIN W : k \in DOMAIN P /\ P[k] = W[k]
                /\ \A x \in DOMAIN own :
                       LET k == own[x][1]
                       IN  /\ Cardinality(At(k)) = 1
                           /\ \A n \in At(k) :
                                  /\ n + 1 \in DOMAIN S
                                  /\ S[n + 1].k = "param"
                                  /\ \E m \in sets : m < n
                           /\ NameOf(k) \notin DOMAIN W
                           /\ NameOf(k) \in DOMAIN P
                           /\ P[NameOf(k)] = own[x][2]
                /\ \A x, y \in DOMAIN own :
                       x # y => NameOf(own[x][1]) # NameOf(own[y][1])
                /\ DOMAIN P = (DOMAIN W) \cup {NameOf(own[x][1]) : x \in DOMAIN own}
                /\ Cardinality(sets) = IF Len(own) = 0 THEN 0 ELSE 1
                /\ Len(own) = 0 => P = W

\* a key of the values that the Where binds too, and a key equal to the
\* name generated for the first
C4_Witness ==
    \E i \in DOMAIN calls :
        /\ calls[i].op = "createRelationship"
        /\ calls[i].args.where = WhereA
        /\ calls[i].args.relationship.values = ValuesIds
        /\ Ran(i)
        /\ DOMAIN RunOf(i).parameters = {"id", "id1", "id11"}
        /\ RunOf(i).parameters["id"] = Num(1)
        /\ RunOf(i).parameters["id1"] = Num(7)
        /\ RunOf(i).parameters["id11"] = Num(8)

\* what an invocation would hand to session.run were it the only one ever
\* made on the Wheres as the callers built them
AloneParameters(c) ==
    CASE c.op = "editMany" ->
            editManyBuild(InitHeap, c.args.nodesLabel, c.args.options,
                          c.args.where).parameters
      [] c.op = "deleteMany" ->
            deleteManyBuild(InitHeap, c.args.nodesLabel, c.args.where).parameters
      [] c.op = "createRelationship" ->
            createRelationshipBuild(InitHeap, c.args).parameters

\* C5: whatever editMany, deleteMany and createRelationship invocations were
\* made on shared Wheres, settled or still in flight, every Where's BindParam
\* holds what it held before the first, and every invocation handed
\* session.run the parameters it would have handed over alone.
C5_WhereUntouched ==
    /\ \A ref \in DOMAIN InitHeap : get(heap, ref) = InitHeap[ref]
    /\ \A i \in DOMAIN calls :
           (calls[i].op # "createMany" /\ Ran(i)) =>
               RunOf(i).parameters = AloneParameters(calls[i])

\* an editMany and a createRelationship in flight together on one Where
C5_Witness ==
    \E i, j \in DOMAIN calls :
        /\ calls[i].op = "editMany"
        /\ calls[j].op = "createRelationship"
        /\ calls[i].args.where = WhereB
        /\ calls[j].args.where = WhereB
        /\ calls[j].args.relationship.values = ValuesIds
        /\ calls[i].promise = Pending
        /\ calls[j].promise = Pending

\* the relationship segment the claim gives for a direction and a label
ExpectedSegment(direction, L) ==
    CASE direction = "out" -> "-[r:" \o BACKTICK \o L \o BACKTICK \o "]->"
      [] direction = "in" -> "<-[r:" \o BACKTICK \o L \o BACKTICK \o "]-"
      [] direction = "none" -> "-[r:" \o BACKTICK \o L \o BACKTICK \o "]-"

\* C6: in createRelationship's statement the piece between (a) and (b) is
\* -[r:L]-> for out, <-[r:L]- for in and -[r:L]- for none, L being the
\* relationship label in backticks.
C6_DirectionSegment ==
    \A i \in DOMAIN calls :
        (calls[i].op = "createRelationship" /\ ~AbsentWhere(i)) =>
            LET S == RunOf(i).statement
                relationship == calls[i].args.relationship
                at == {n \in DOMAIN S : S[n] = Txt(" CREATE (a)")}
            IN  /\ Ran(i)
                /\ Cardinality(at) = 1
                /\ \A n \in at :
                       /\ n + 2 \in DOMAIN S
                       /\ S[n + 1] = Txt(ExpectedSegment(relationship.direction,
                                                        relationship.label))
                       /\ S[n + 2] = Txt("(b) ")

C6_Witness ==
    \E i \in DOMAIN calls :
        /\ calls[i].op = "createRelationship"
        /\ calls[i].args.relationship.direction = "in"
        /\ calls[i].args.relationship.label = "ACTED IN"
        /\ Ran(i)
        /\ Txt("<-[r:'ACTED IN']-") \in Pieces(RunOf(i).statement)

\* with a logger: logged once, before the one session.run, the same pair;
\* without: nothing logged, and the statement run all the same
LoggedThenRun(i) ==
    /\ Cardinality(RunEvents(i)) = 1
    /\ calls[i].promise # Rejected(TypeError)
    /\ IF logger = "null"
       THEN LogEvents(i) = {}
       ELSE /\ Cardinality(LogEvents(i)) = 1
            /\ \A l \in LogEvents(i), r \in RunEvents(i) :
                   /\ l < r
                   /\ events[l].statement = events[r].statement
                   /\ events[l].parameters = events[r].parameters

\* C7 (as stated; refuted by createRelationship without its where): in
\* every invocation an injected logger is invoked exactly once, before
\* session.run and with the pair session.run gets; without a logger the
\* invocation does the same except for the logging.
C7_EveryCallLoggedThenRun == \A i \in DOMAIN calls : LoggedThenRun(i)

\* C7 (amended): the same for every invocation but createRelationship
\* without its where, which logs nothing and runs nothing, logger or not.
C7_LoggedThenRun ==
    \A i \in DOMAIN calls :
        IF AbsentWhere(i)
        THEN LogEvents(i) = {} /\ RunEvents(i) = {}
        ELSE LoggedThenRun(i)

C7_Witness ==
    /\ logger = "fn"
    /\ \E i \in DOMAIN calls :
           /\ calls[i].op = "createMany"
           /\ Cardinality(LogEvents(i)) = 1
           /\ Ran(i)

\* session.run invoked once for the invocation, whose promise is the one
\* session.run returned: pending with it, settled as it settled
RunOnceAndReturned(i) ==
    /\ Cardinality(RunEvents(i)) = 1
    /\ calls[i].run \in DOMAIN session
    /\ calls[i].promise = session[calls[i].run]
    /\ \A n \in RunEvents(i) :
           calls[i].run = Cardinality({m \in 1..n : events[m].kind = "run"})

\* C8 (as stated; refuted by createRelationship without its where): every
\* invocation invokes session.run exactly once and the caller observes
\* exactly its outcome.
C8_EveryCallRunsOnce == \A i \in DOMAIN calls : RunOnceAndReturned(i)

\* C8 (amended): the same for every invocation but createRelationship
\* without its where, which never invokes session.run and rejects with a
\* TypeError.
C8_RunsOnce ==
    \A i \in DOMAIN calls :
        IF AbsentWhere(i)
        THEN RunEvents(i) = {} /\ calls[i].promise = Rejected(TypeError)
        ELSE RunOnceAndReturned(i)

\* one invocation failed as session.run failed, another got its result
C8_Witness ==
    \E i, j \in DOMAIN calls :
        /\ calls[i].op = "deleteMany"
        /\ calls[i].promise = Rejected("constraintViolation")
        /\ calls[j].promise = Resolved("result")

\* C9: deleteMany with a Where: one WHERE clause, holding the Where's
\* expression, and the parameters are the Where's entries; without: no WHERE
\* clause, no parameters, and the statement is run.
C9_DeleteMany ==
    \A i \in DOMAIN calls :
        calls[i].op = "deleteMany" =>
            LET S == RunOf(i).statement
                P == RunOf(i).parameters
                where == calls[i].args.where
                at == {n \in DOMAIN S : S[n] = Txt("WHERE ")}
                len == Len(where.statement)
            IN  /\ Ran(i)
                /\ calls[i].promise # Rejected(TypeError)
                /\ IF where.defined
                   THEN /\ Cardinality(at) = 1
                        /\ \A n \in at :
                               /\ n + len + 1 \in DOMAIN S
                               /\ SubSeq(S, n + 1, n + len) = where.statement
                               /\ S[n + len + 1] = Txt(" OPTIONAL MATCH (")
                        /\ P = calls[i].whereBind
                   ELSE /\ at = {}
                        /\ P = <<>>

C9_Witness ==
    \E i \in DOMAIN calls :
        /\ calls[i].op = "deleteMany"
        /\ ~calls[i].args.where.defined
        /\ calls[i].promise = Resolved("result")

\* C10: two invocations of one operation with equal inputs, the Where's
\* BindParam holding the same entries both times, hand session.run the same
\* statement and the same parameters, generated names included (or both hand
\* it nothing), whatever was invoked before or in between.
C10_SameInputsSameOutput ==
    \A i, j \in DOMAIN calls :
        (/\ i < j
         /\ calls[i].op = calls[j].op
         /\ calls[i].args = calls[j].args
         /\ calls[i].whereBind = calls[j].whereBind) =>
            /\ Ran(i) <=> Ran(j)
            /\ Ran(i) =>
                   /\ RunOf(i).statement = RunOf(j).statement
                   /\ RunOf(i).parameters = RunOf(j).parameters

C10_Witness ==
    \E i, j \in DOMAIN calls :
        /\ i < j
        /\ calls[i].op = "createRelationship"
        /\ calls[j].op = "createRelationship"
        /\ calls[i].args = calls[j].args
        /\ calls[i].args.where = WhereB
        /\ calls[i].args.relationship.values = ValuesIds
        /\ Ran(i)
        /\ Ran(j)
        /\ "id2" \in DOMAIN RunOf(j).parameters

====
